---- MODULE Spec2Model ----
(***************************************************************************)
(* Model of the conversation core of ai-agent-platform: the record store   *)
(* (Agent, ChatSession, Message with cascade delete), ChatService          *)
(* (get_session_context, build_langchain_messages, generate_response),     *)
(* VoiceService (speech_to_text, text_to_speech, process_voice_message)    *)
(* and the two posting views of ChatSessionViewSet.                        *)
(*                                                                         *)
(* Every request is one invocation; invocations run concurrently and       *)
(* interleave at their record-store queries and remote calls, which are    *)
(* the only points where the code blocks.                                  *)
(***************************************************************************)
EXTENDS Integers, Sequences, FiniteSets, TLC

\* ------------------------------------------------------------------ bounds
MaxInv == 2          \* invocations (requests) in one behaviour
MaxAgents == 1       \* agent rows ever created
MaxSessions == 2     \* session rows ever created
MaxClock == 1        \* last reading of the clock

\* --------------------------------------------------------- program values
USER == "user"
AGENT == "agent"
ROLE_CHOICES == {USER, AGENT}

Absent == "<absent>"                 \* a request field that was not sent
Texts == {"", "hi"}                  \* user utterances / transcripts
Completions == {"ok"}                \* texts the LLM may return
Prompts == {"P1", "P2"}              \* agent prompts

Invs == 1..MaxInv

VARIABLES
    agents,          \* Agent table: id -> [prompt]
    nextAgentId,     \* autoincrement of Agent
    sessions,        \* ChatSession table: id -> [agent]
    nextSessionId,   \* autoincrement of ChatSession
    messages,        \* Message table, rows in insertion (id) order
    nextMessageId,   \* autoincrement of Message
    now,             \* the last reading of the clock auto_now_add reads
    started,         \* number of invocations begun so far
    inv,             \* invocation -> its locals and position
    probe,           \* result of the last direct get_session_context call
                     \* made since storage was last written
    boot             \* the process: configuration file, environment, the
                     \* loaded ConfigManager, how far the imports got

vars == <<agents, nextAgentId, sessions, nextSessionId, messages,
          nextMessageId, now, started, inv, probe, boot>>

store == <<agents, sessions, messages>>

\* -------------------------------------------------------------- sequences
Range(s) == {s[k] : k \in 1..Len(s)}

\* ------------------------------------------------------------ record store
\* session.messages: the rows of one session, in table (id) order
SessionRows(tbl, sid) == SelectSeq(tbl, LAMBDA m : m.session = sid)

\* MessageCreate that puts the new row before the existing ones
MessageCreate_front(tbl, id, sid, role, content, t, by) ==
    <<[id |-> id, session |-> sid, role |-> role,
       content |-> content, created_at |-> t, by |-> by]>> \o tbl

\* MessageCreate that writes over the last row when another writer put it
MessageCreate_overwrite(tbl, id, sid, role, content, t, by) ==
    LET row == [id |-> id, session |-> sid, role |-> role,
                content |-> content, created_at |-> t, by |-> by]
    IN IF tbl # <<>> /\ tbl[Len(tbl)].by # by
       THEN [tbl EXCEPT ![Len(tbl)] = row]
       ELSE Append(tbl, row)

\* Message.objects.create(session=..., role=..., content=...)
\* auto_now_add stamps the row with the clock at insert time.
MessageCreate(tbl, id, sid, role, content, t, by) ==
    Append(tbl, [id |-> id, session |-> sid, role |-> role,
                 content |-> content, created_at |-> t, by |-> by])


\* ChatSession delete with on_delete=CASCADE on Message.session
CascadeSession(tbl, sid) == SelectSeq(tbl, LAMBDA m : m.session # sid)

\* Agent delete with on_delete=CASCADE on ChatSession.agent
SessionsOfAgent(aid) == {s \in DOMAIN sessions : sessions[s].agent = aid}

Restrict(f, D) == [x \in D |-> f[x]]

CreatedAts(S) == {m.created_at : m \in S}
MinOf(T) == CHOOSE t \in T : \A u \in T : t <= u

RECURSIVE OrderBy(_)
\* QuerySet.order_by('created_at'): every sequence of the rows of S whose
\* created_at is non-decreasing.  The query names no second sort key, so
\* the store may return rows that share a created_at in any order.
OrderBy(S) ==
    IF S = {} THEN {<<>>}
    ELSE LET first == {m \in S : m.created_at = MinOf(CreatedAts(S))}
         IN UNION {{<<g>> \o r : r \in OrderBy(S \ {g})} : g \in first}

\* ------------------------------------------------------------- ChatService
\* get_session_context: one {'role','content'} pair per row, in row order
get_session_context(rows) ==
    [k \in 1..Len(rows) |-> [role |-> rows[k].role, content |-> rows[k].content]]

SystemMessage(c) == [type |-> "system", content |-> c]
HumanMessage(c) == [type |-> "human", content |-> c]
AIMessage(c) == [type |-> "ai", content |-> c]

RECURSIVE HistoryEntries_allHuman(_)
\* HistoryEntries with the role test dropped: every entry a HumanMessage
HistoryEntries_allHuman(context) ==
    IF context = <<>> THEN <<>>
    ELSE <<HumanMessage(Head(context).content)>>
            \o HistoryEntries_allHuman(Tail(context))

RECURSIVE HistoryEntries(_)
\* the loop of build_langchain_messages: user -> HumanMessage,
\* agent -> AIMessage, any other role appends nothing
HistoryEntries(context) ==
    IF context = <<>> THEN <<>>
    ELSE LET msg == Head(context)
             rest == HistoryEntries(Tail(context))
         IN IF msg.role = USER THEN <<HumanMessage(msg.content)>> \o rest
            ELSE IF msg.role = AGENT THEN <<AIMessage(msg.content)>> \o rest
            ELSE rest

\* build_langchain_messages without the system entry
build_langchain_messages_noSystem(agent_prompt, context, user_message) ==
    HistoryEntries(context) \o <<HumanMessage(user_message)>>

\* build_langchain_messages, lines 41-57
build_langchain_messages(agent_prompt, context, user_message) ==
    <<SystemMessage(agent_prompt)>> \o HistoryEntries(context)
        \o <<HumanMessage(user_message)>>

\* -------------------------------------------------------------- invocations
Idle == [kind |-> "none", pc |-> "idle", session_id |-> 0,
         user_message |-> Absent, agent_prompt |-> Absent,
         rows |-> <<>>, context |-> <<>>, lc_messages |-> <<>>,
         agent_response |-> Absent, raised |-> "", status |-> 0,
         stored_prompt |-> Absent,
         result |-> [type |-> "none", val |-> Absent],
         errors |-> {}, tmp |-> "none", trace |-> <<>>]

Ev(name, val) == [ev |-> name, val |-> val]

\* the except clauses of send_message / send_voice_message:
\* ChatSession.DoesNotExist -> 404, any other Exception -> 500
StatusOf(exc) == IF exc = "DoesNotExist" THEN 404 ELSE 500

Raise(r, exc) ==
    [r EXCEPT !.pc = "done", !.raised = exc,
              !.status = StatusOf(exc),
              !.trace = Append(r.trace, Ev("raise", exc))]

\* the invocation runs process_voice_message, through the view or called
\* directly
IsVoice(kind) == kind \in {"send_voice_message", "process_voice_message"}


SessionIdArgs == 1..MaxSessions      \* ids a caller may name
NoId == 0                            \* session_id field not sent

\* Required that lets a missing field pass
Required_lenient(field, missing) == {}

\* serializer.errors as a set of <<field, code>>; a field declared without
\* arguments is required
Required(field, missing) ==
    IF missing THEN {<<field, "required">>} ELSE {}

\* SendMessageSerializer: session_id = IntegerField(), content = CharField()
\* both required; CharField() has allow_blank=False
SendMessageSerializer_errors(data) ==
    Required("session_id", data.session_id = NoId)
        \cup Required("content", data.content = Absent)
        \cup (IF data.content = "" THEN {<<"content", "blank">>} ELSE {})

SendMessageSerializer_is_valid(data) == SendMessageSerializer_errors(data) = {}

\* VoiceMessageSerializer: session_id = IntegerField(), audio_file = FileField()
VoiceMessageSerializer_errors(data) ==
    Required("session_id", data.session_id = NoId)
        \cup Required("audio_file", data.audio_file = Absent)

VoiceMessageSerializer_is_valid(data) == VoiceMessageSerializer_errors(data) = {}

\* Response(serializer.errors, status=HTTP_400_BAD_REQUEST)
BadRequest(kind, errs) ==
    [Idle EXCEPT !.kind = kind, !.pc = "done", !.status = 400, !.errors = errs]

Begin(i, r) ==
    /\ i = started + 1
    /\ inv[i].pc = "idle"
    /\ started' = i
    /\ inv' = [inv EXCEPT ![i] = r]
    /\ UNCHANGED <<agents, nextAgentId, sessions, nextSessionId, messages,
                   nextMessageId, now, probe, boot>>

Step(i, r) ==
    /\ inv' = [inv EXCEPT ![i] = r]
    /\ UNCHANGED <<agents, nextAgentId, sessions, nextSessionId, messages,
                   nextMessageId, now, started, probe, boot>>

\* POST send_message: validate, then call generate_response
send_message(i) ==
    \E sid \in SessionIdArgs \cup {NoId}, content \in Texts \cup {Absent} :
        LET data == [session_id |-> sid, content |-> content]
            r == [Idle EXCEPT !.kind = "send_message", !.session_id = sid]
        IN IF ~SendMessageSerializer_is_valid(data)
           THEN Begin(i, BadRequest("send_message",
                                    SendMessageSerializer_errors(data)))
           ELSE Begin(i, [r EXCEPT !.pc = "resolve", !.user_message = content,
                                   !.trace = <<Ev("call generate_response", content)>>])

\* Resolve that goes on without a session row instead of raising
Resolve_unchecked(i) ==
    LET r == inv[i] IN
    /\ r.pc = "resolve"
    /\ Step(i, [r EXCEPT !.pc = "read",
                   !.agent_prompt =
                       IF r.session_id \in DOMAIN sessions
                       THEN agents[sessions[r.session_id].agent].prompt
                       ELSE Absent,
                   !.trace = Append(@, Ev("resolved", ""))])

\* Resolve that looks the session up again and again until it exists
Resolve_polls(i) ==
    LET r == inv[i] IN
    /\ r.pc = "resolve"
    /\ r.session_id \in DOMAIN sessions
    /\ Step(i, [r EXCEPT !.pc = "read",
                   !.agent_prompt = agents[sessions[r.session_id].agent].prompt,
                   !.trace = Append(@, Ev("resolved", ""))])

\* generate_response, line 64:
\* ChatSession.objects.select_related('agent').get(id=session_id)
Resolve(i) ==
    LET r == inv[i] IN
    /\ r.pc = "resolve"
    /\ IF r.session_id \in DOMAIN sessions
       THEN Step(i, [r EXCEPT !.pc = "read",
                       !.agent_prompt = agents[sessions[r.session_id].agent].prompt,
                       !.trace = Append(@, Ev("resolved", ""))])
       ELSE Step(i, Raise(r, "DoesNotExist"))

\* ReadHistory that goes on to the LLM call, before the user message is saved
ReadHistory_thenLLM(i) ==
    LET r == inv[i] IN
    /\ r.pc = "read"
    /\ \E rows \in OrderBy(Range(SessionRows(messages, r.session_id))) :
          Step(i, [r EXCEPT !.pc = "llm", !.rows = rows,
                            !.context = get_session_context(rows),
                            !.trace = Append(@, Ev("history_read", ""))])

\* ReadHistory that waits while another invocation on the session is
\* between its two writes
ReadHistory_locked(i) ==
    LET r == inv[i] IN
    /\ r.pc = "read"
    /\ \A j \in Invs \ {i} :
          ~(inv[j].session_id = r.session_id
              /\ inv[j].pc \in {"llm", "write_agent"})
    /\ \E rows \in OrderBy(Range(SessionRows(messages, r.session_id))) :
          Step(i, [r EXCEPT !.pc = "write_user", !.rows = rows,
                            !.context = get_session_context(rows),
                            !.trace = Append(@, Ev("history_read", ""))])

\* ReadHistory that leaves out the messages of turns that got no reply
ReadHistory_answeredOnly(i) ==
    LET r == inv[i] IN
    /\ r.pc = "read"
    /\ \E rows \in OrderBy({m \in Range(SessionRows(messages, r.session_id)) :
                               \E n \in Range(messages) :
                                   n.by = m.by /\ n.role = AGENT}) :
          Step(i, [r EXCEPT !.pc = "write_user", !.rows = rows,
                            !.context = get_session_context(rows),
                            !.trace = Append(@, Ev("history_read", ""))])

\* generate_response, line 68: context = self.get_session_context(session)
ReadHistory(i) ==
    LET r == inv[i] IN
    /\ r.pc = "read"
    /\ \E rows \in OrderBy(Range(SessionRows(messages, r.session_id))) :
          Step(i, [r EXCEPT !.pc = "write_user", !.rows = rows,
                            !.context = get_session_context(rows),
                            !.trace = Append(@, Ev("history_read", ""))])

\* timezone.now() as auto_now_add reads it: not before the last reading,
\* and possibly the same instant again
ClockReadings(last) == {t \in {last, last + 1} : t <= MaxClock}

\* others: a message of another session was inserted since the call
NoProbe == [session_id |-> NoId, context |-> <<>>, others |-> FALSE]

\* the last direct result after an insert into session sid: it stands while
\* the rows of its own session are as they were
ProbeAfterInsert(sid) ==
    IF probe.session_id \in {NoId, sid} THEN NoProbe
    ELSE [probe EXCEPT !.others = TRUE]

\* InsertMessage without the foreign key: the row is stored although its
\* session is gone
InsertMessage_unchecked(i, role, content, ok, failed) ==
    LET r == inv[i] IN
    /\ now' \in ClockReadings(now)
    /\ messages' = MessageCreate(messages, nextMessageId, r.session_id,
                                 role, content, now', i)
    /\ nextMessageId' = nextMessageId + 1
    /\ inv' = [inv EXCEPT ![i] = ok]
    /\ probe' = NoProbe /\ UNCHANGED boot
    /\ UNCHANGED <<agents, nextAgentId, sessions, nextSessionId, started>>

\* Message.objects.create on behalf of invocation i; the foreign key to
\* ChatSession rejects the insert when the session row is gone
InsertMessage(i, role, content, ok, failed) ==
    LET r == inv[i] IN
    IF r.session_id \in DOMAIN sessions
    THEN /\ now' \in ClockReadings(now)
         /\ messages' = MessageCreate(messages, nextMessageId, r.session_id,
                                      role, content, now', i)
         /\ nextMessageId' = nextMessageId + 1
         /\ inv' = [inv EXCEPT ![i] = ok]
         /\ probe' = ProbeAfterInsert(r.session_id) /\ UNCHANGED boot
         /\ UNCHANGED <<agents, nextAgentId, sessions, nextSessionId, started>>
    ELSE Step(i, failed)

\* WriteUser that refuses an empty text
WriteUser_rejectBlank(i) ==
    LET r == inv[i] IN
    /\ r.pc = "write_user"
    /\ IF r.user_message = ""
       THEN Step(i, Raise(r, "ValidationError"))
       ELSE InsertMessage(i, USER, r.user_message,
                          [r EXCEPT !.pc = "llm",
                                    !.trace = Append(@, Ev("user_written", ""))],
                          Raise(r, "IntegrityError"))

\* WriteUser that reads the history again after saving the user message
WriteUser_rereads(i) ==
    LET r == inv[i] IN
    /\ r.pc = "write_user"
    /\ r.session_id \in DOMAIN sessions
    /\ now' \in ClockReadings(now)
    /\ messages' = MessageCreate(messages, nextMessageId, r.session_id,
                                 USER, r.user_message, now', i)
    /\ nextMessageId' = nextMessageId + 1
    /\ inv' = [inv EXCEPT ![i] =
                  [r EXCEPT !.pc = "llm",
                            !.rows = SessionRows(messages', r.session_id),
                            !.context = get_session_context(
                                            SessionRows(messages', r.session_id)),
                            !.trace = Append(@, Ev("user_written", ""))]]
    /\ probe' = NoProbe /\ UNCHANGED boot
    /\ UNCHANGED <<agents, nextAgentId, sessions, nextSessionId, started>>

\* generate_response, lines 71-75: save the user message
WriteUser(i) ==
    LET r == inv[i] IN
    /\ r.pc = "write_user"
    /\ InsertMessage(i, USER, r.user_message,
                     [r EXCEPT !.pc = "llm",
                               !.trace = Append(@, Ev("user_written", ""))],
                     Raise(r, "IntegrityError"))

\* CallLLM that deletes the invocation's user message when the call fails
CallLLM_rollback(i) ==
    LET r == inv[i]
        msgs == build_langchain_messages(r.agent_prompt, r.context, r.user_message)
        called == [r EXCEPT !.lc_messages = msgs,
                            !.trace = Append(@, Ev("llm_called", ""))]
    IN
    /\ r.pc = "llm"
    /\ \/ \E c \in Completions :
             Step(i, [called EXCEPT !.pc = "write_agent", !.agent_response = c,
                                    !.trace = Append(@, Ev("llm_returned", c))])
       \/ /\ inv' = [inv EXCEPT ![i] = Raise(called, "LLMError")]
          /\ messages' = SelectSeq(messages, LAMBDA m : m.by # i)
          /\ probe' = NoProbe /\ UNCHANGED boot
          /\ UNCHANGED <<agents, nextAgentId, sessions, nextSessionId,
                         nextMessageId, now, started>>

\* CallLLM that invokes the LLM a second time when the first call fails
CallLLM_retry(i) ==
    LET r == inv[i]
        msgs == build_langchain_messages(r.agent_prompt, r.context, r.user_message)
        called == [r EXCEPT !.lc_messages = msgs,
                            !.trace = Append(@, Ev("llm_called", ""))]
    IN
    /\ r.pc = "llm"
    /\ \/ \E c \in Completions :
             Step(i, [called EXCEPT !.pc = "write_agent", !.agent_response = c,
                                    !.trace = Append(@, Ev("llm_returned", c))])
       \/ IF \E k \in 1..Len(r.trace) : r.trace[k].ev = "llm_called"
          THEN Step(i, Raise(called, "LLMError"))
          ELSE Step(i, called)

\* the prompt the agent row of session sid holds now
StoredPrompt(sid) ==
    IF sid \in DOMAIN sessions THEN agents[sessions[sid].agent].prompt
    ELSE Absent

\* CallLLMObserving that reads the agent row again when it builds the
\* sequence
CallLLMObserving_currentPrompt(i, observe) ==
    LET r == inv[i]
        prompt == IF r.session_id \in DOMAIN sessions
                  THEN StoredPrompt(r.session_id) ELSE r.agent_prompt
        msgs == build_langchain_messages(prompt, r.context, r.user_message)
        called == [r EXCEPT !.lc_messages = msgs,
                            !.stored_prompt =
                                IF observe THEN StoredPrompt(r.session_id)
                                ELSE Absent,
                            !.trace = Append(@, Ev("llm_called", ""))]
    IN
    /\ r.pc = "llm"
    /\ \/ \E c \in Completions :
             Step(i, [called EXCEPT !.pc = "write_agent", !.agent_response = c,
                                    !.trace = Append(@, Ev("llm_returned", c))])
       \/ Step(i, Raise(called, "LLMError"))

\* generate_response, lines 78-86: build the sequence from the agent object
\* loaded at line 64, invoke the LLM. With observe the invocation also
\* notes, in stored_prompt, what the agent row held at the time of the call
CallLLMObserving(i, observe) ==
    LET r == inv[i]
        msgs == build_langchain_messages(r.agent_prompt, r.context, r.user_message)
        called == [r EXCEPT !.lc_messages = msgs,
                            !.stored_prompt =
                                IF observe THEN StoredPrompt(r.session_id)
                                ELSE Absent,
                            !.trace = Append(@, Ev("llm_called", ""))]
    IN
    /\ r.pc = "llm"
    /\ \/ \E c \in Completions :
             Step(i, [called EXCEPT !.pc = "write_agent", !.agent_response = c,
                                    !.trace = Append(@, Ev("llm_returned", c))])
       \/ Step(i, Raise(called, "LLMError"))

\* generate_response, lines 78-86
CallLLM(i) == CallLLMObserving(i, FALSE)

CallLLMObserved(i) == CallLLMObserving(i, TRUE)

\* what follows the return of generate_response in the caller
AfterGenerate(r) ==
    IF IsVoice(r.kind)
    THEN [r EXCEPT !.pc = "tts"]
    ELSE [r EXCEPT !.pc = "done",
                   !.result = [type |-> "text", val |-> r.agent_response],
                   !.status = 200]

\* WriteAgent that returns the text without saving it
WriteAgent_unsaved(i) ==
    LET r == inv[i] IN
    /\ r.pc = "write_agent"
    /\ Step(i, AfterGenerate([r EXCEPT !.trace =
                   Append(Append(@, Ev("agent_written", "")),
                          Ev("return generate_response", r.agent_response))]))

\* WriteAgent that saves the agent message twice
WriteAgent_twice(i) ==
    LET r == inv[i] IN
    /\ r.pc = "write_agent"
    /\ r.session_id \in DOMAIN sessions
    /\ now' \in ClockReadings(now)
    /\ messages' = MessageCreate(
                       MessageCreate(messages, nextMessageId, r.session_id,
                                     AGENT, r.agent_response, now', i),
                       nextMessageId + 1, r.session_id,
                       AGENT, r.agent_response, now', i)
    /\ nextMessageId' = nextMessageId + 2
    /\ inv' = [inv EXCEPT ![i] = AfterGenerate([r EXCEPT !.trace =
                   Append(Append(@, Ev("agent_written", "")),
                          Ev("return generate_response", r.agent_response))])]
    /\ probe' = NoProbe /\ UNCHANGED boot
    /\ UNCHANGED <<agents, nextAgentId, sessions, nextSessionId, started>>

\* WriteAgent that saves the user's text as the agent message
WriteAgent_storesUserText(i) ==
    LET r == inv[i] IN
    /\ r.pc = "write_agent"
    /\ InsertMessage(i, AGENT, r.user_message,
                     AfterGenerate([r EXCEPT !.trace =
                         Append(Append(@, Ev("agent_written", "")),
                                Ev("return generate_response", r.agent_response))]),
                     Raise(r, "IntegrityError"))

\* generate_response, lines 89-95: save the agent message, return the text
WriteAgent(i) ==
    LET r == inv[i] IN
    /\ r.pc = "write_agent"
    /\ InsertMessage(i, AGENT, r.agent_response,
                     AfterGenerate([r EXCEPT !.trace =
                         Append(Append(@, Ev("agent_written", "")),
                                Ev("return generate_response", r.agent_response))]),
                     Raise(r, "IntegrityError"))


\* ------------------------------------------------------------ VoiceService
AudioFiles == {"audio"}

\* POST send_voice_message: validate, then verify the session exists
send_voice_message(i) ==
    \E sid \in SessionIdArgs \cup {NoId}, audio \in AudioFiles \cup {Absent} :
        LET data == [session_id |-> sid, audio_file |-> audio]
            r == [Idle EXCEPT !.kind = "send_voice_message", !.session_id = sid]
        IN IF ~VoiceMessageSerializer_is_valid(data)
           THEN Begin(i, BadRequest("send_voice_message",
                                    VoiceMessageSerializer_errors(data)))
           ELSE Begin(i, [r EXCEPT !.pc = "view_get"])

\* VerifySession that starts the pipeline without looking the session up
VerifySession_unchecked(i) ==
    LET r == inv[i] IN
    /\ r.pc = "view_get"
    /\ Step(i, [r EXCEPT !.pc = "stt",
                   !.trace = <<Ev("call process_voice_message", "")>>])

\* send_voice_message, line 209: ChatSession.objects.get(id=session_id)
\* VoiceService().process_voice_message(session_id, audio_file) called
\* directly, not through the view: nothing looks at the session before
\* speech_to_text runs
process_voice_message(i) ==
    \E sid \in SessionIdArgs, audio \in AudioFiles :
        Begin(i, [Idle EXCEPT !.kind = "process_voice_message",
                              !.session_id = sid, !.pc = "stt",
                              !.trace = <<Ev("call process_voice_message", "")>>])

VerifySession(i) ==
    LET r == inv[i] IN
    /\ r.pc = "view_get"
    /\ IF r.session_id \in DOMAIN sessions
       THEN Step(i, [r EXCEPT !.pc = "stt",
                       !.trace = <<Ev("call process_voice_message", "")>>])
       ELSE Step(i, Raise(r, "DoesNotExist"))

\* speech_to_text that returns an empty transcript when transcription fails
speech_to_text_swallow(r, chunks_ok, transcript, remove_ok) ==
    LET called == [r EXCEPT !.trace = Append(@, Ev("call speech_to_text", ""))]
        tried == [called EXCEPT !.trace = Append(@, Ev("transcribed", transcript))]
    IN
    IF ~chunks_ok
    THEN Raise([called EXCEPT !.tmp = "exists"], "IOError")
    ELSE IF ~remove_ok
    THEN Raise([tried EXCEPT !.tmp = "exists"], "OSError")
    ELSE [tried EXCEPT !.tmp = "removed",
                        !.user_message = IF transcript = Absent THEN "" ELSE transcript,
                        !.pc = "resolve",
                        !.trace = IF transcript = Absent
                                  THEN Append(@, Ev("call generate_response", ""))
                                  ELSE Append(Append(@,
                                         Ev("return speech_to_text", transcript)),
                                         Ev("call generate_response", transcript))]

\* speech_to_text as one step of its caller.  The temporary file is made
\* with delete=False and filled from audio_file.chunks() before the try;
\* the transcription runs inside try; the finally removes the file when it
\* exists.  An exception raised in the finally replaces the pending one
\* and the pending return value.  "transcribed" records what the
\* transcription call gave (Absent when it raised).
speech_to_text(r, chunks_ok, transcript, remove_ok) ==
    LET called == [r EXCEPT !.trace = Append(@, Ev("call speech_to_text", ""))]
        tried == [called EXCEPT !.trace = Append(@, Ev("transcribed", transcript))]
    IN
    IF ~chunks_ok
    THEN Raise([called EXCEPT !.tmp = "exists"], "IOError")
    ELSE IF ~remove_ok
    THEN Raise([tried EXCEPT !.tmp = "exists"], "OSError")
    ELSE IF transcript = Absent
    THEN Raise([tried EXCEPT !.tmp = "removed"], "TranscriptionError")
    ELSE [tried EXCEPT !.tmp = "removed", !.user_message = transcript,
                        !.pc = "resolve",
                        !.trace = Append(Append(@,
                                     Ev("return speech_to_text", transcript)),
                                     Ev("call generate_response", transcript))]

\* process_voice_message, line 61: user_text = self.speech_to_text(audio_file)
\* SpeechToText that looks the session up before it transcribes
SpeechToText_afterLookup(i) ==
    /\ inv[i].pc = "stt"
    /\ IF inv[i].session_id \notin DOMAIN sessions
       THEN Step(i, Raise(inv[i], "DoesNotExist"))
       ELSE \E chunks_ok \in BOOLEAN, transcript \in Texts \cup {Absent},
               remove_ok \in BOOLEAN :
               Step(i, speech_to_text(inv[i], chunks_ok, transcript, remove_ok))

\* process_voice_message, line 63: text = self.speech_to_text(audio_file)
SpeechToText(i) ==
    /\ inv[i].pc = "stt"
    /\ \E chunks_ok \in BOOLEAN, transcript \in Texts \cup {Absent},
          remove_ok \in BOOLEAN :
          Step(i, speech_to_text(inv[i], chunks_ok, transcript, remove_ok))

\* the audio the Speech Client synthesizes for a text
Synthesized(text) == [type |-> "audio", val |-> text]

\* text_to_speech handed the user's text instead of the agent's
text_to_speech_of_user_text(r, ok) ==
    LET called == [r EXCEPT !.trace =
                      Append(@, Ev("call text_to_speech", r.user_message))] IN
    IF ok
    THEN [called EXCEPT !.pc = "done",
                        !.result = Synthesized(r.user_message),
                        !.status = 200,
                        !.trace = Append(@, Ev("return text_to_speech",
                                               r.user_message))]
    ELSE Raise(called, "SynthesisError")

\* process_voice_message, lines 69-72: text_to_speech, return the audio
text_to_speech(r, ok) ==
    LET called == [r EXCEPT !.trace =
                      Append(@, Ev("call text_to_speech", r.agent_response))] IN
    IF ok
    THEN [called EXCEPT !.pc = "done",
                        !.result = Synthesized(r.agent_response),
                        !.status = 200,
                        !.trace = Append(@, Ev("return text_to_speech",
                                               r.agent_response))]
    ELSE Raise(called, "SynthesisError")

\* TextToSpeech that deletes the turn's messages when synthesis fails
TextToSpeech_rollback(i) ==
    /\ inv[i].pc = "tts"
    /\ \/ Step(i, text_to_speech(inv[i], TRUE))
       \/ /\ inv' = [inv EXCEPT ![i] = text_to_speech(inv[i], FALSE)]
          /\ messages' = SelectSeq(messages, LAMBDA m : m.by # i)
          /\ probe' = NoProbe /\ UNCHANGED boot
          /\ UNCHANGED <<agents, nextAgentId, sessions, nextSessionId,
                         nextMessageId, now, started>>

\* process_voice_message, lines 69-72, as a step of invocation i
TextToSpeech(i) ==
    /\ inv[i].pc = "tts"
    /\ \E ok \in BOOLEAN : Step(i, text_to_speech(inv[i], ok))

\* ------------------------------------------------- agent and session views
NoInvStep == /\ probe' = NoProbe /\ UNCHANGED boot
             /\ UNCHANGED <<started, inv>>

\* AgentViewSet.create
CreateAgent ==
    /\ nextAgentId <= MaxAgents
    /\ \E p \in Prompts :
          agents' = [a \in DOMAIN agents \cup {nextAgentId} |->
                       IF a = nextAgentId THEN [prompt |-> p] ELSE agents[a]]
    /\ nextAgentId' = nextAgentId + 1
    /\ UNCHANGED <<sessions, nextSessionId, messages, nextMessageId, now>>
    /\ NoInvStep

\* UpdateAgent that also rewrites the stored agent messages
UpdateAgent_rewritesMessages ==
    /\ \E a \in DOMAIN agents, p \in Prompts :
          /\ p # agents[a].prompt
          /\ agents' = [agents EXCEPT ![a].prompt = p]
          /\ messages' = [k \in 1..Len(messages) |->
                            IF messages[k].role = AGENT
                            THEN [messages[k] EXCEPT !.content = p]
                            ELSE messages[k]]
    /\ UNCHANGED <<nextAgentId, sessions, nextSessionId, nextMessageId, now>>
    /\ NoInvStep

\* AgentViewSet.update / partial_update
UpdateAgent ==
    /\ \E a \in DOMAIN agents, p \in Prompts :
          /\ p # agents[a].prompt
          /\ agents' = [agents EXCEPT ![a].prompt = p]
    /\ UNCHANGED <<nextAgentId, sessions, nextSessionId, messages,
                   nextMessageId, now>>
    /\ NoInvStep

\* AgentViewSet.destroy: sessions and their messages go with the agent
DeleteAgent ==
    /\ \E a \in DOMAIN agents :
          LET gone == SessionsOfAgent(a) IN
          /\ agents' = Restrict(agents, DOMAIN agents \ {a})
          /\ sessions' = Restrict(sessions, DOMAIN sessions \ gone)
          /\ messages' = SelectSeq(messages, LAMBDA m : m.session \notin gone)
    /\ UNCHANGED <<nextAgentId, nextSessionId, nextMessageId, now>>
    /\ NoInvStep

\* CreateSession that stores a greeting message in the new session
CreateSession_greeting ==
    /\ nextSessionId <= MaxSessions
    /\ \E a \in DOMAIN agents :
          sessions' = [s \in DOMAIN sessions \cup {nextSessionId} |->
                         IF s = nextSessionId THEN [agent |-> a] ELSE sessions[s]]
    /\ nextSessionId' = nextSessionId + 1
    /\ messages' = MessageCreate(messages, nextMessageId, nextSessionId,
                                 AGENT, "hi", now, 0)
    /\ nextMessageId' = nextMessageId + 1
    /\ UNCHANGED <<agents, nextAgentId, now>>
    /\ NoInvStep

\* ChatSessionViewSet.create: the agent must exist
CreateSession ==
    /\ nextSessionId <= MaxSessions
    /\ \E a \in DOMAIN agents :
          sessions' = [s \in DOMAIN sessions \cup {nextSessionId} |->
                         IF s = nextSessionId THEN [agent |-> a] ELSE sessions[s]]
    /\ nextSessionId' = nextSessionId + 1
    /\ UNCHANGED <<agents, nextAgentId, messages, nextMessageId, now>>
    /\ NoInvStep

\* DeleteSession that leaves the session's messages in the table
DeleteSession_keepMessages ==
    /\ \E s \in DOMAIN sessions :
          sessions' = Restrict(sessions, DOMAIN sessions \ {s})
    /\ UNCHANGED <<agents, nextAgentId, nextSessionId, messages,
                   nextMessageId, now>>
    /\ NoInvStep

\* ChatSessionViewSet.destroy: the messages go with the session
DeleteSession ==
    /\ \E s \in DOMAIN sessions :
          /\ sessions' = Restrict(sessions, DOMAIN sessions \ {s})
          /\ messages' = CascadeSession(messages, s)
    /\ UNCHANGED <<agents, nextAgentId, nextSessionId, nextMessageId, now>>
    /\ NoInvStep

\* a direct call ChatService().get_session_context(session) on a stored
\* session, as the service tests make it
GetSessionContext(sid) ==
    /\ sid \in DOMAIN sessions
    /\ \E rows \in OrderBy(Range(SessionRows(messages, sid))) :
          probe' = [session_id |-> sid, context |-> get_session_context(rows),
                    others |-> FALSE]
    /\ UNCHANGED <<agents, nextAgentId, sessions, nextSessionId, messages,
                   nextMessageId, now, started, inv, boot>>

\* ------------------------------------------------------- the Message model
MaxDirect == 2       \* rows created by direct calls of the model

\* role values a caller of the model may pass
RoleArgs == ROLE_CHOICES \cup {"system"}

\* Message.objects.create(session=s, role=role, content=content) called on
\* the model itself.  Model.save() does not run full_clean(), so the
\* choices of the role field are not looked at; the foreign key is.
Message_objects_create ==
    /\ nextMessageId <= MaxDirect
    /\ \E sid \in DOMAIN sessions, role \in RoleArgs, content \in Texts :
          /\ now' \in ClockReadings(now)
          /\ messages' = MessageCreate(messages, nextMessageId, sid, role,
                                       content, now', 0)
    /\ nextMessageId' = nextMessageId + 1
    /\ UNCHANGED <<agents, nextAgentId, sessions, nextSessionId>>
    /\ NoInvStep

\* ------------------------------------------------------------ ConfigManager
\* A line of config/.env is a sequence of tokens: a word, or one of the
\* characters the loader looks at.
SP == " "
EQ == "="
HASH == "#"

RECURSIVE lstrip(_)
lstrip(l) == IF l # <<>> /\ Head(l) = SP THEN lstrip(Tail(l)) ELSE l

RECURSIVE rstrip(_)
rstrip(l) ==
    IF l # <<>> /\ l[Len(l)] = SP THEN rstrip(SubSeq(l, 1, Len(l) - 1)) ELSE l

\* str.strip()
strip(l) == rstrip(lstrip(l))

\* position of the first "=" of l, 0 when there is none
FirstEq(l) ==
    IF EQ \in Range(l)
    THEN CHOOSE k \in 1..Len(l) : l[k] = EQ /\ \A j \in 1..(k - 1) : l[j] # EQ
    ELSE 0

\* dict item assignment
SetItem(d, k, v) == [x \in DOMAIN d \cup {k} |-> IF x = k THEN v ELSE d[x]]

\* the body of the loop of _load for one line
LoadLine(config, raw) ==
    LET line == strip(raw)
        k == FirstEq(line)
    IN IF line = <<>> \/ line[1] = HASH THEN config
       ELSE IF k = 0 THEN config
       ELSE SetItem(config, strip(SubSeq(line, 1, k - 1)),
                            strip(SubSeq(line, k + 1, Len(line))))

RECURSIVE LoadLines(_, _)
LoadLines(config, lines) ==
    IF lines = <<>> THEN config
    ELSE LoadLines(LoadLine(config, Head(lines)), Tail(lines))

\* ConfigManager._load on a file that exists
_load(lines) == LoadLines(<<>>, lines)

\* Python values: None, a string (its tokens), a raised KeyError
None == [kind |-> "None", val |-> <<>>]
Str(v) == [kind |-> "str", val |-> v]
KeyError == [kind |-> "KeyError", val |-> <<>>]

\* get that falls back to the default when the stored value is empty
ConfigManager_get_or_default(config, key, default) ==
    IF key \in DOMAIN config /\ config[key] # <<>>
    THEN Str(config[key]) ELSE default

\* ConfigManager.get: self.config.get(key, default)
ConfigManager_get(config, key, default) ==
    IF key \in DOMAIN config THEN Str(config[key]) ELSE default

\* ConfigManager.__getitem__: self.config[key]
ConfigManager_getitem(config, key) ==
    IF key \in DOMAIN config THEN Str(config[key]) ELSE KeyError

\* ConfigManager.__contains__: key in self.config
ConfigManager_contains(config, key) == key \in DOMAIN config

OPENAI_API_KEY == <<"OPENAI_API_KEY">>
GROQ_API_KEY == <<"GROQ_API_KEY">>
ApiKeys == <<OPENAI_API_KEY, GROQ_API_KEY>>

MaxLines == 2        \* lines of a configuration file

\* the lines a configuration file is made of
ConfigLines ==
    { <<"OPENAI_API_KEY", EQ, "sk-o">>,
      <<"GROQ_API_KEY", EQ, "gsk">>,
      <<SP, "GROQ_API_KEY", SP, EQ, SP, "gsk2", SP>>,
      <<HASH, "GROQ_API_KEY", EQ, "gsk">>,
      <<>>,
      <<"GROQ_API_KEY">>,
      <<"OPENAI_API_KEY", EQ>>,
      <<"COMPLEX_VALUE", EQ, "with", EQ, "equals">> }

NoFile == [exists |-> FALSE, lines |-> <<>>]
ConfigFiles ==
    {NoFile} \cup
    {[exists |-> TRUE, lines |-> l] :
        l \in UNION {[1..n -> ConfigLines] : n \in 0..MaxLines}}

\* os.environ restricted to the two keys the services read
EnvValues == {None, Str(<<>>), Str(<<"env">>)}
Environs == [{OPENAI_API_KEY, GROQ_API_KEY} -> EnvValues]

NoAccess == [key |-> <<>>, default |-> None, contains |-> FALSE,
             item |-> None, get |-> None]

NoRequest == [service |-> "", raised |-> ""]

\* the process before anything is imported
Unloaded(file, environ) ==
    [file |-> file, environ0 |-> environ, environ |-> environ,
     loaded |-> FALSE, config |-> <<>>, phase |-> "start", raised |-> "",
     request |-> NoRequest, access |-> NoAccess]

\* ConfigManager(): __init__ and _load
ConfigManager(b) ==
    IF ~b.file.exists
    THEN [b EXCEPT !.phase = "failed", !.raised = "FileNotFoundError"]
    ELSE [b EXCEPT !.loaded = TRUE, !.config = _load(b.file.lines)]

\* not os.environ.get(key)
EnvUnset(environ, key) == environ[key] \in {None, Str(<<>>)}

RECURSIVE SetEnvFromConfig_lenient(_, _)
\* SetEnvFromConfig that leaves the variable unset when the file lacks it
SetEnvFromConfig_lenient(b, keys) ==
    IF keys = <<>> \/ b.phase = "failed" THEN b
    ELSE LET key == Head(keys)
             v == ConfigManager_get(b.config, key, None)
         IN IF ~EnvUnset(b.environ, key) \/ v = None
            THEN SetEnvFromConfig_lenient(b, Tail(keys))
            ELSE SetEnvFromConfig_lenient([b EXCEPT !.environ[key] = v],
                                          Tail(keys))

RECURSIVE SetEnvFromConfig(_, _)
\* chat_service.py lines 12-16, for the keys in order:
\* if not os.environ.get(K): os.environ[K] = config.get(K)
\* os.environ refuses a value that is not a str with TypeError
SetEnvFromConfig(b, keys) ==
    IF keys = <<>> \/ b.phase = "failed" THEN b
    ELSE LET key == Head(keys)
             v == ConfigManager_get(b.config, key, None)
         IN IF ~EnvUnset(b.environ, key) THEN SetEnvFromConfig(b, Tail(keys))
            ELSE IF v = None
            THEN [b EXCEPT !.phase = "failed", !.raised = "TypeError"]
            ELSE SetEnvFromConfig([b EXCEPT !.environ[key] = v], Tail(keys))

BootStep(b) ==
    /\ boot' = b
    /\ UNCHANGED <<agents, nextAgentId, sessions, nextSessionId, messages,
                   nextMessageId, now, started, inv, probe>>

\* import app.services.chat_service: the module-level code, lines 9-16
import_chat_service ==
    /\ boot.phase = "start"
    /\ LET b == SetEnvFromConfig(ConfigManager(boot), ApiKeys)
       IN BootStep(IF b.phase = "failed" THEN b
                   ELSE [b EXCEPT !.phase = "chat_imported"])

\* import app.services.voice_service: config = ConfigManager(), line 7
import_voice_service ==
    /\ boot.phase = "chat_imported"
    /\ LET b == ConfigManager(boot)
       IN BootStep(IF b.phase = "failed" THEN b
                   ELSE [b EXCEPT !.phase = "ready"])

\* ChatGroq(...) in ChatService.__init__: the client takes GROQ_API_KEY from
\* the environment and refuses to be built without one
ChatService_init(b) ==
    IF b.environ[GROQ_API_KEY] = None THEN "GroqError" ELSE ""

\* OpenAI(api_key=config.get("OPENAI_API_KEY")) in VoiceService.__init__:
\* without the argument the client takes OPENAI_API_KEY from the
\* environment and refuses to be built without one; then ChatService()
VoiceService_init(b) ==
    IF ConfigManager_get(b.config, OPENAI_API_KEY, None) = None
          /\ b.environ[OPENAI_API_KEY] = None
    THEN "OpenAIError"
    ELSE ChatService_init(b)

\* a request reaches chat_service = ChatService() in send_message
ConstructChatService ==
    /\ boot.phase = "ready"
    /\ BootStep([boot EXCEPT !.request = [service |-> "ChatService",
                                          raised |-> ChatService_init(boot)]])

\* a request reaches voice_service = VoiceService() in send_voice_message
ConstructVoiceService ==
    /\ boot.phase = "ready"
    /\ BootStep([boot EXCEPT !.request = [service |-> "VoiceService",
                                          raised |-> VoiceService_init(boot)]])

AccessKeys == {OPENAI_API_KEY, GROQ_API_KEY, <<"COMPLEX_VALUE">>,
               <<"MISSING_KEY">>}
Defaults == {None, Str(<<>>), Str(<<"default">>)}

\* key in config, config[key] and config.get(key, default) on the loaded
\* ConfigManager
Access ==
    /\ boot.loaded
    /\ \E key \in AccessKeys, default \in Defaults :
          BootStep([boot EXCEPT !.access =
              [key |-> key, default |-> default,
               contains |-> ConfigManager_contains(boot.config, key),
               item |-> ConfigManager_getitem(boot.config, key),
               get |-> ConfigManager_get(boot.config, key, default)]])

\* the process the views run in: both keys in the file, imports done
Booted ==
    LET lines == <<<<"OPENAI_API_KEY", EQ, "sk-o">>,
                   <<"GROQ_API_KEY", EQ, "gsk">>>>
        environ == [k \in {OPENAI_API_KEY, GROQ_API_KEY} |-> None]
        b == SetEnvFromConfig(
                 ConfigManager(Unloaded([exists |-> TRUE, lines |-> lines],
                                        environ)), ApiKeys)
    IN [b EXCEPT !.phase = "ready"]

\* ------------------------------------------------------------ specification
Init ==
    /\ agents = <<>>
    /\ nextAgentId = 1
    /\ sessions = <<>>
    /\ nextSessionId = 1
    /\ messages = <<>>
    /\ nextMessageId = 1
    /\ now = 0
    /\ started = 0
    /\ inv = [i \in Invs |-> Idle]
    /\ probe = NoProbe
    /\ boot = Booted

Next ==
    \/ CreateAgent
    \/ UpdateAgent
    \/ DeleteAgent
    \/ CreateSession
    \/ DeleteSession
    \/ \E i \in Invs : send_message(i)
    \/ \E i \in Invs : send_voice_message(i)
    \/ \E i \in Invs : VerifySession(i)
    \/ \E i \in Invs : SpeechToText(i)
    \/ \E i \in Invs : Resolve(i)
    \/ \E i \in Invs : ReadHistory(i)
    \/ \E i \in Invs : WriteUser(i)
    \/ \E i \in Invs : CallLLM(i)
    \/ \E i \in Invs : WriteAgent(i)
    \/ \E i \in Invs : TextToSpeech(i)

Spec == Init /\ [][Next]_vars

\* text turns and direct context reads on the sessions of one agent
NextContext ==
    \/ CreateAgent
    \/ CreateSession
    \/ \E i \in Invs : send_message(i)
    \/ \E i \in Invs : Resolve(i)
    \/ \E i \in Invs : ReadHistory(i)
    \/ \E i \in Invs : WriteUser(i)
    \/ \E i \in Invs : CallLLM(i)
    \/ \E i \in Invs : WriteAgent(i)
    \/ \E sid \in SessionIdArgs : GetSessionContext(sid)

SpecContext == Init /\ [][NextContext]_vars

\* the record store used through the models and get_session_context
NextStore ==
    \/ CreateAgent
    \/ CreateSession
    \/ DeleteSession
    \/ Message_objects_create
    \/ \E sid \in SessionIdArgs : GetSessionContext(sid)

SpecStore == Init /\ [][NextStore]_vars

\* turns while agent prompts are updated, each LLM call noting what the
\* agent row held when it was made
NextPrompt ==
    \/ CreateAgent
    \/ UpdateAgent
    \/ CreateSession
    \/ \E i \in Invs : send_message(i)
    \/ \E i \in Invs : Resolve(i)
    \/ \E i \in Invs : ReadHistory(i)
    \/ \E i \in Invs : WriteUser(i)
    \/ \E i \in Invs : CallLLMObserved(i)
    \/ \E i \in Invs : WriteAgent(i)

SpecPrompt == Init /\ [][NextPrompt]_vars

\* the voice orchestrator called directly
NextVoice ==
    \/ CreateAgent
    \/ CreateSession
    \/ DeleteSession
    \/ \E i \in Invs : process_voice_message(i)
    \/ \E i \in Invs : SpeechToText(i)
    \/ \E i \in Invs : Resolve(i)
    \/ \E i \in Invs : ReadHistory(i)
    \/ \E i \in Invs : WriteUser(i)
    \/ \E i \in Invs : CallLLM(i)
    \/ \E i \in Invs : WriteAgent(i)
    \/ \E i \in Invs : TextToSpeech(i)

SpecVoice == Init /\ [][NextVoice]_vars

\* the next statement of invocation i: each is straight-line code around
\* one call of the record store, the LLM or the speech client
InvocationStep(i) ==
    \/ SpeechToText(i)
    \/ Resolve(i)
    \/ ReadHistory(i)
    \/ WriteUser(i)
    \/ CallLLM(i)
    \/ WriteAgent(i)
    \/ TextToSpeech(i)

\* every call an invocation makes returns or fails in the end, so an
\* invocation that can take its next statement takes it
CallsReturn == \A i \in Invs : WF_vars(InvocationStep(i))

SpecLive == Init /\ [][NextVoice]_vars /\ CallsReturn

\* the process from its start: any configuration file, any environment
InitConfig ==
    /\ agents = <<>>
    /\ nextAgentId = 1
    /\ sessions = <<>>
    /\ nextSessionId = 1
    /\ messages = <<>>
    /\ nextMessageId = 1
    /\ now = 0
    /\ started = 0
    /\ inv = [i \in Invs |-> Idle]
    /\ probe = NoProbe
    /\ \E file \in ConfigFiles, environ \in Environs :
          boot = Unloaded(file, environ)

NextConfig ==
    \/ import_chat_service
    \/ import_voice_service
    \/ ConstructChatService
    \/ ConstructVoiceService
    \/ Access

SpecConfig == InitConfig /\ [][NextConfig]_vars


\* ------------------------------------------------------------------ helpers
HasEv(r, name) == \E k \in 1..Len(r.trace) : r.trace[k].ev = name

\* generate_response of invocation i has returned its text
GenReturned(i) == HasEv(inv[i], "return generate_response")

\* the persisted log of a session, and the rows an invocation inserted
Log(sid) == SessionRows(messages, sid)
Own(i) == SelectSeq(messages, LAMBDA m : m.by = i)
Pairs(rows) == [k \in 1..Len(rows) |-> [role |-> rows[k].role,
                                        content |-> rows[k].content]]
Pair(role, content) == [role |-> role, content |-> content]

\* nothing but invocation i wrote to its session since i read the history
Undisturbed(i) ==
    \A m \in Range(Log(inv[i].session_id)) :
        m \in Range(inv[i].rows) \/ m.by = i

\* the log of i's session is the history i read, then `tail` written by i
LogIsHistoryThen(i, tail) ==
    LET log == Log(inv[i].session_id)
        N == Len(inv[i].rows)
    IN /\ Len(log) = N + Len(tail)
       /\ {log[k] : k \in 1..N} = Range(inv[i].rows)
       /\ \A k \in 1..Len(tail) :
             /\ log[N + k].by = i
             /\ Pair(log[N + k].role, log[N + k].content) = tail[k]

\* ------------------------------------------------------------------- claims

\* C1: a generate_response that succeeds on an existing session leaves
\* exactly two rows of its own, the user message with the given text and
\* then the agent message; with N messages read as history and no other
\* writer the session then holds exactly those N, the user message and the
\* agent message, N+2 in all.
C1_SuccessAppendsTwo ==
    \A i \in Invs :
        LET r == inv[i]
            turn == <<Pair(USER, r.user_message), Pair(AGENT, r.agent_response)>>
        IN (GenReturned(i) /\ r.session_id \in DOMAIN sessions) =>
              /\ Pairs(Own(i)) = turn
              /\ Undisturbed(i) => LogIsHistoryThen(i, turn)

C1_Witness ==
    \E i \in Invs :
        /\ GenReturned(i)
        /\ inv[i].session_id \in DOMAIN sessions
        /\ Undisturbed(i)
        /\ Len(inv[i].rows) = 2
        /\ Len(Log(inv[i].session_id)) = 4

\* C2: the sequence handed to the LLM is the system entry with the agent
\* prompt, then one entry per history pair in the same order (user ->
\* human, agent -> ai, content unchanged), then the human entry with the
\* new utterance: N+2 entries for the N messages read.
C2_RenderedSequence ==
    \A i \in Invs :
        LET r == inv[i]
            H == r.context
            L == r.lc_messages
        IN HasEv(r, "llm_called") =>
              /\ Len(H) = Len(r.rows)
              /\ Len(L) = Len(H) + 2
              /\ L[1] = [type |-> "system", content |-> r.agent_prompt]
              /\ \A k \in 1..Len(H) :
                    /\ L[k + 1].content = H[k].content
                    /\ H[k].role = USER => L[k + 1].type = "human"
                    /\ H[k].role = AGENT => L[k + 1].type = "ai"
              /\ L[Len(H) + 2] = [type |-> "human", content |-> r.user_message]

C2_Witness ==
    \E i \in Invs :
        /\ HasEv(inv[i], "llm_called")
        /\ Len(inv[i].context) = 2
        /\ inv[i].context[1].role = USER
        /\ inv[i].context[2].role = AGENT
        /\ inv[i].context[1].content # inv[i].user_message

\* C3: when the LLM call fails the failure is what the caller gets (500
\* from send_message), the user message stays stored and no agent message
\* is written: N+1 messages where N were read and nobody else wrote.
C3_LLMFailureKeepsUser ==
    \A i \in Invs :
        LET r == inv[i]
            turn == <<Pair(USER, r.user_message)>>
        IN r.raised = "LLMError" =>
              /\ r.pc = "done"
              /\ r.status = 500
              /\ r.result.type = "none"
              /\ r.session_id \in DOMAIN sessions =>
                    /\ Pairs(Own(i)) = turn
                    /\ Undisturbed(i) => LogIsHistoryThen(i, turn)

C3_Witness ==
    \E i \in Invs :
        /\ inv[i].raised = "LLMError"
        /\ inv[i].kind = "send_message"
        /\ inv[i].session_id \in DOMAIN sessions
        /\ Undisturbed(i)
        /\ Len(inv[i].rows) = 2
        /\ Len(Log(inv[i].session_id)) = 3


\* C4: generate_response on a session id that matches no session raises
\* ChatSession.DoesNotExist at its first statement: the step writes no
\* message, no LLM call is made, send_message answers 404, and the
\* invocation takes no further step.
C4_MissingSession ==
    [][\A i \in Invs :
          /\ (inv[i].pc = "resolve" /\ inv[i].session_id \notin DOMAIN sessions
                /\ inv'[i] # inv[i]) =>
                /\ inv'[i].pc = "done"
                /\ inv'[i].raised = "DoesNotExist"
                /\ messages' = messages
                /\ Own(i) = <<>>
                /\ ~HasEv(inv'[i], "user_written")
                /\ ~HasEv(inv'[i], "llm_called")
                /\ inv'[i].lc_messages = <<>>
                /\ inv'[i].status = 404
          /\ inv[i].pc = "done" => inv'[i] = inv[i]]_vars

C4_Witness ==
    \E i \in Invs :
        /\ inv[i].kind = "send_message"
        /\ HasEv(inv[i], "call generate_response")
        /\ inv[i].raised = "DoesNotExist"
        /\ inv[i].status = 404
        /\ messages # <<>>

\* C5 as stated: once an invocation is through generate_response, its user
\* message is directly followed in the session's log by its agent message.
C5_PairNeverSplit ==
    \A i \in Invs :
        LET log == Log(inv[i].session_id) IN
        (inv[i].pc \in {"tts", "done"} /\ inv[i].session_id \in DOMAIN sessions) =>
            \A k \in 1..Len(log) :
                (log[k].by = i /\ log[k].role = USER) =>
                    /\ k < Len(log)
                    /\ log[k + 1].by = i
                    /\ log[k + 1].role = AGENT

\* C5 amended: an invocation inserts at most one user and one agent
\* message, the user message first; a generate_response that returned left
\* both, one that failed left no agent message; the two are adjacent when
\* nothing but the invocation wrote to the session after its history read.
C5_PairOrdered ==
    \A i \in Invs :
        LET own == Own(i)
            log == Log(inv[i].session_id)
        IN inv[i].session_id \in DOMAIN sessions =>
              /\ Len(own) <= 2
              /\ Len(own) >= 1 => own[1].role = USER
              /\ Len(own) = 2 => own[2].role = AGENT
              /\ GenReturned(i) => Len(own) = 2
              /\ (inv[i].pc = "done" /\ ~GenReturned(i)) => Len(own) <= 1
              /\ (GenReturned(i) /\ Undisturbed(i)) =>
                    \E k \in 1..(Len(log) - 1) :
                        log[k] = own[1] /\ log[k + 1] = own[2]

\* two invocations on one session, their pairs interleaved in the log
C5_Witness ==
    \E i, j \in Invs :
        LET log == Log(inv[i].session_id) IN
        /\ i # j
        /\ inv[i].session_id = inv[j].session_id
        /\ GenReturned(i) /\ GenReturned(j)
        /\ Len(log) = 4
        /\ log[1].by = i /\ log[2].by = j /\ log[3].by = i /\ log[4].by = j


\* C6 as stated: the history read has one pair per row, in non-decreasing
\* created_at order, rows that share a created_at in insertion (id) order.
C6_HistoryInInsertionOrder ==
    \A i \in Invs :
        LET rows == inv[i].rows IN
        HasEv(inv[i], "history_read") =>
            /\ inv[i].context = Pairs(rows)
            /\ \A k, l \in 1..Len(rows) :
                  k < l => /\ rows[k].created_at <= rows[l].created_at
                           /\ rows[k].created_at = rows[l].created_at =>
                                 rows[k].id < rows[l].id

\* C7 as stated: a second get_session_context on the same session with no
\* write to storage since the first returns the same sequence, and the
\* call leaves agents, sessions and messages as they were.
C7_RepeatedReadIdentical ==
    [][/\ (probe.session_id # NoId /\ ~probe.others
            /\ probe'.session_id = probe.session_id /\ ~probe'.others) =>
             probe'.context = probe.context
       /\ (probe' # NoProbe /\ ~probe'.others /\ probe' # probe) =>
             UNCHANGED store]_vars

\* the transcription step of invocation i raised
SttFailed(i) ==
    /\ HasEv(inv[i], "call speech_to_text")
    /\ ~HasEv(inv[i], "return speech_to_text")

\* generate_response of invocation i raised
GenFailed(i) ==
    /\ HasEv(inv[i], "call generate_response")
    /\ ~GenReturned(i)
    /\ inv[i].pc = "done"

LastEv(r) == r.trace[Len(r.trace)]

\* C8: in a voice turn a failed speech_to_text means no generate_response
\* call, no message and no text_to_speech call; a failed generate_response
\* means no text_to_speech call; the caller gets the failing step's
\* exception.
C8_FailureAbortsPipeline ==
    \A i \in Invs :
        LET r == inv[i] IN
        r.kind = "send_voice_message" =>
            /\ SttFailed(i) =>
                  /\ r.pc = "done"
                  /\ r.raised \in {"IOError", "TranscriptionError", "OSError"}
                  /\ LastEv(r) = Ev("raise", r.raised)
                  /\ r.status = 500
                  /\ ~HasEv(r, "call generate_response")
                  /\ ~HasEv(r, "user_written")
                  /\ Own(i) = <<>>
                  /\ ~HasEv(r, "call text_to_speech")
            /\ GenFailed(i) =>
                  /\ r.raised \in {"DoesNotExist", "IntegrityError", "LLMError"}
                  /\ LastEv(r) = Ev("raise", r.raised)
                  /\ r.status = StatusOf(r.raised)
                  /\ ~HasEv(r, "call text_to_speech")
                  /\ r.result.type = "none"

C8_Witness ==
    \E i, j \in Invs :
        /\ inv[i].kind = "send_voice_message" /\ SttFailed(i)
        /\ inv[i].raised = "TranscriptionError"
        /\ inv[j].kind = "send_voice_message" /\ GenFailed(j)
        /\ inv[j].raised = "LLMError"

\* C9: when text_to_speech fails after speech_to_text and the chat turn
\* succeeded, the call fails and the turn's two messages stay stored: the
\* user message with the transcript and the agent message with the
\* completion.
C9_SynthesisFailureKeepsTurn ==
    \A i \in Invs :
        LET r == inv[i] IN
        r.raised = "SynthesisError" =>
            /\ r.pc = "done"
            /\ r.status = 500
            /\ r.result.type = "none"
            /\ GenReturned(i)
            /\ HasEv(r, "return speech_to_text")
            /\ \A k \in 1..Len(r.trace) :
                  r.trace[k].ev = "return speech_to_text" =>
                      r.trace[k].val = r.user_message
            /\ r.session_id \in DOMAIN sessions =>
                  Pairs(Own(i)) = <<Pair(USER, r.user_message),
                                    Pair(AGENT, r.agent_response)>>

C9_Witness ==
    \E i \in Invs :
        /\ inv[i].raised = "SynthesisError"
        /\ inv[i].session_id \in DOMAIN sessions
        /\ Len(Own(i)) = 2
        /\ Len(inv[i].rows) = 2

\* the calls and returns of the three pipeline steps, in trace order
PipelineEvents(r) ==
    SelectSeq(r.trace, LAMBDA e : e.ev \in
        {"call speech_to_text", "return speech_to_text",
         "call generate_response", "return generate_response",
         "call text_to_speech", "return text_to_speech", "raise"})

\* C10: a voice turn that succeeds made one speech_to_text call, then one
\* generate_response call with the transcript as user text, then one
\* text_to_speech call with the text generate_response returned, each
\* after the previous one returned, and returns the synthesized audio.
C10_PipelineOrder ==
    \A i \in Invs :
        LET r == inv[i] IN
        (r.kind = "send_voice_message" /\ r.status = 200) =>
            \E t \in Texts, c \in Completions :
                /\ PipelineEvents(r) =
                      <<Ev("call speech_to_text", ""),
                        Ev("return speech_to_text", t),
                        Ev("call generate_response", t),
                        Ev("return generate_response", c),
                        Ev("call text_to_speech", c),
                        Ev("return text_to_speech", c)>>
                /\ r.user_message = t
                /\ r.result = Synthesized(c)
                /\ r.pc = "done"

C10_Witness ==
    \E i \in Invs :
        /\ inv[i].kind = "send_voice_message"
        /\ inv[i].status = 200
        /\ inv[i].user_message = "hi"
        /\ inv[i].result.type = "audio"

\* what the transcription call of invocation i gave, Absent when it raised
Transcript(i) ==
    LET t == SelectSeq(inv[i].trace, LAMBDA e : e.ev = "transcribed")
    IN IF t = <<>> THEN Absent ELSE t[1].val

\* speech_to_text of invocation i reached its finally and os.remove raised
RemoveFailed(i) ==
    /\ HasEv(inv[i], "transcribed")
    /\ inv[i].tmp = "exists"

\* C11 as stated: once speech_to_text has returned or raised, on any exit
\* path (return, transcription raising, failure while the chunks are
\* written), the temporary file it created no longer exists.
C11_TempFileGone ==
    \A i \in Invs :
        HasEv(inv[i], "call speech_to_text") => inv[i].tmp = "removed"

\* C12 as stated: a failing removal of the temporary file is swallowed;
\* with a transcript obtained speech_to_text still returns it and the turn
\* goes on to generate_response, and with the transcription failed the
\* caller gets the transcription failure rather than the removal's.
C12_CleanupFailureSwallowed ==
    \A i \in Invs :
        RemoveFailed(i) =>
            /\ inv[i].raised # "OSError"
            /\ Transcript(i) # Absent =>
                  /\ HasEv(inv[i], "return speech_to_text")
                  /\ HasEv(inv[i], "call generate_response")
            /\ Transcript(i) = Absent => inv[i].raised = "TranscriptionError"

\* the exceptions generate_response raises for any user text
GenerateResponseErrors == {"DoesNotExist", "IntegrityError", "LLMError"}

\* C13: generate_response with "" as user text is treated like any other
\* text: nothing rejects it, the user message is stored with content "",
\* the last entry of the sequence sent to the LLM is the human entry with
\* content "", and on success the agent message is stored and the
\* completion returned.
C13_EmptyTextAccepted ==
    \A i \in Invs :
        LET r == inv[i]
            own == Own(i)
            here == r.session_id \in DOMAIN sessions
        IN (HasEv(r, "call generate_response") /\ r.user_message = "") =>
              /\ r.raised \in GenerateResponseErrors \cup {"", "SynthesisError"}
              /\ (HasEv(r, "user_written") /\ here) =>
                    /\ own # <<>>
                    /\ Pair(own[1].role, own[1].content) = Pair(USER, "")
              /\ HasEv(r, "llm_called") =>
                    r.lc_messages[Len(r.lc_messages)] = HumanMessage("")
              /\ GenReturned(i) =>
                    /\ r.agent_response \in Completions
                    /\ r.pc \in {"tts", "done"}
                    /\ r.raised \in {"", "SynthesisError"}
                    /\ here => Pairs(own) = <<Pair(USER, ""),
                                              Pair(AGENT, r.agent_response)>>

C13_Witness ==
    \E i \in Invs :
        /\ HasEv(inv[i], "call generate_response")
        /\ inv[i].user_message = ""
        /\ GenReturned(i)
        /\ inv[i].status = 200
        /\ Len(Own(i)) = 2
        /\ Len(inv[i].lc_messages) = 4

\* invocation i is a send_message request whose content field is ""
BlankContentRequest(i) ==
    /\ inv[i].kind = "send_message"
    /\ \/ <<"content", "blank">> \in inv[i].errors
       \/ inv[i].user_message = ""

\* C14 as stated: a send_message request with content "" (and a session
\* id) is not answered with a validation error; generate_response is
\* called with "" as user text.
C14_BlankContentAccepted ==
    \A i \in Invs :
        (BlankContentRequest(i)
            /\ <<"session_id", "required">> \notin inv[i].errors) =>
                /\ inv[i].status # 400
                /\ inv[i].trace # <<>>
                /\ inv[i].trace[1] = Ev("call generate_response", "")

\* C15: every message references a stored session and every session a
\* stored agent, whatever creates, deletes and turns have run; so the
\* messages of a deleted session and the sessions and messages of a
\* deleted agent are gone with it.
C15_ReferentialIntegrity ==
    /\ \A k \in 1..Len(messages) : messages[k].session \in DOMAIN sessions
    /\ \A sid \in DOMAIN sessions : sessions[sid].agent \in DOMAIN agents

\* one session deleted together with its messages, another one kept
C15_Witness ==
    /\ nextSessionId = 3
    /\ Cardinality(DOMAIN sessions) = 1
    /\ messages # <<>>
    /\ nextMessageId > Len(messages) + 1

\* the rows of tbl whose id is not the id of a row of old
NewRows(old, tbl) ==
    SelectSeq(tbl, LAMBDA m : \A k \in 1..Len(old) : old[k].id # m.id)

\* C16: every step leaves the stored rows as they are (id, session, role,
\* content, created_at) and in the same relative order; rows go only
\* together with their session, when it is deleted; new rows come after
\* all existing ones, with a larger id and a created_at not before theirs.
C16_AppendOnly ==
    [][LET gone == DOMAIN sessions \ DOMAIN sessions'
           kept == SelectSeq(messages, LAMBDA m : m.session \notin gone)
           added == NewRows(messages, messages')
       IN /\ messages' = kept \o added
          /\ \A k \in 1..Len(added), l \in 1..Len(messages) :
                /\ added[k].id > messages[l].id
                /\ added[k].created_at >= messages[l].created_at
          /\ added # <<>> => gone = {}]_vars

\* rows appended after an older row was removed with its session
C16_Witness ==
    /\ Len(messages) = 2
    /\ messages[1].id > 1
    /\ messages[1].by = messages[2].by

\* C17: an update of an agent's prompt changes no message; generate_response
\* takes the prompt the agent has in storage when it resolves the session
\* (its first statement), keeps it, and sends it as the content of the
\* system entry, so an invocation started after an update sends the new
\* prompt.
C17_PromptUpdate ==
    [][/\ (DOMAIN agents' = DOMAIN agents /\ agents' # agents) =>
             messages' = messages
       /\ \A i \in Invs :
             LET r == inv[i] IN
             /\ (r.pc = "resolve" /\ inv'[i].pc = "read") =>
                   inv'[i].agent_prompt =
                       agents[sessions[r.session_id].agent].prompt
             /\ r.pc \in {"read", "write_user", "llm", "write_agent", "tts"} =>
                   inv'[i].agent_prompt = r.agent_prompt
             /\ HasEv(inv'[i], "llm_called") =>
                   inv'[i].lc_messages[1] = SystemMessage(inv'[i].agent_prompt)]_vars

\* two invocations on sessions of one agent, the prompt updated between them
C17_Witness ==
    \E i, j \in Invs :
        /\ HasEv(inv[i], "llm_called") /\ HasEv(inv[j], "llm_called")
        /\ inv[i].lc_messages[1].content # inv[j].lc_messages[1].content
        /\ inv[j].session_id \in DOMAIN sessions
        /\ inv[j].lc_messages[1].content =
               agents[sessions[inv[j].session_id].agent].prompt
        /\ Own(i) # <<>>

\* the values of the events named `name` in the trace of r
EvVals(r, name) ==
    LET t == SelectSeq(r.trace, LAMBDA e : e.ev = name)
    IN [k \in 1..Len(t) |-> t[k].val]

\* C18: when generate_response has returned, the text it returned, the
\* content of the agent message it stored and the completion the LLM
\* returned to it are one string.
C18_ReturnedIsStoredIsCompletion ==
    \A i \in Invs :
        LET r == inv[i]
            own == Own(i)
        IN GenReturned(i) =>
              \E c \in Completions :
                  /\ EvVals(r, "llm_returned") = <<c>>
                  /\ EvVals(r, "return generate_response") = <<c>>
                  /\ r.session_id \in DOMAIN sessions =>
                        /\ Len(own) = 2
                        /\ Pair(own[2].role, own[2].content) = Pair(AGENT, c)
                  /\ (r.kind = "send_message" /\ r.pc = "done") =>
                        r.result = [type |-> "text", val |-> c]

C18_Witness ==
    \E i \in Invs :
        /\ GenReturned(i)
        /\ inv[i].kind = "send_message"
        /\ inv[i].result.val \in Completions
        /\ inv[i].session_id \in DOMAIN sessions
        /\ Own(i)[2].content = inv[i].result.val
        /\ Own(i)[2].content # Own(i)[1].content

\* number of events of r's trace with a name in names
CountEv(r, names) == Len(SelectSeq(r.trace, LAMBDA e : e.ev \in names))

\* C19: a row enters the Message table only in a step of generate_response
\* that saves the user or the agent message, one row per step, inserted on
\* behalf of the invocation taking the step; steps of the agent and
\* session views and of the posting views outside generate_response add
\* none.
C19_MessagesOnlyFromGenerateResponse ==
    [][LET added == NewRows(messages, messages') IN
       /\ Len(added) <= 1
       /\ (agents' # agents \/ sessions' # sessions) => added = <<>>
       /\ \A i \in Invs :
             Len(SelectSeq(messages', LAMBDA m : m.by = i))
                 <= CountEv(inv'[i], {"user_written", "agent_written"})
       /\ added # <<>> =>
             \E i \in Invs :
                 /\ added[1].by = i
                 /\ \/ inv[i].pc = "write_user" /\ added[1].role = USER
                    \/ inv[i].pc = "write_agent" /\ added[1].role = AGENT
                 /\ HasEv(inv[i], "call generate_response")
                 /\ ~GenReturned(i)
                 /\ \A j \in Invs \ {i} : inv'[j] = inv[j]]_vars

\* a text turn done, sessions created and one deleted around it
C19_Witness ==
    \E i \in Invs :
        /\ inv[i].kind = "send_message"
        /\ inv[i].status = 200
        /\ Len(Own(i)) = 2
        /\ nextSessionId = 3
        /\ Cardinality(DOMAIN sessions) = 1
        /\ nextAgentId = 2

\* serializer.errors of invocation i names a missing required field
LacksField(i) == \E e \in inv[i].errors : e[2] = "required"

\* C20: a send_message or send_voice_message request without session_id,
\* content or audio_file is answered 400 with the validation errors: it
\* made no call (speech_to_text, generate_response, LLM, text_to_speech)
\* and stored no message; a request that went on had its fields.
C20_MissingFieldRejected ==
    \A i \in Invs :
        LET r == inv[i] IN
        /\ LacksField(i) =>
              /\ r.status = 400
              /\ r.pc = "done"
              /\ r.trace = <<>>
              /\ r.lc_messages = <<>>
              /\ r.tmp = "none"
              /\ r.result.type = "none"
              /\ Own(i) = <<>>
        /\ (r.pc # "idle" /\ r.errors = {}) =>
              /\ r.session_id # NoId
              /\ HasEv(r, "call generate_response") => r.user_message # Absent

C20_Witness ==
    \E i, j \in Invs :
        /\ inv[i].kind = "send_message"
        /\ inv[i].errors = {<<"content", "required">>}
        /\ inv[j].kind = "send_voice_message"
        /\ inv[j].errors = {<<"audio_file", "required">>}
        /\ DOMAIN sessions # {}
        /\ messages = <<>>

\* key is in neither the configuration file nor the environment
MissingKey(key) ==
    /\ boot.file.exists => key \notin DOMAIN _load(boot.file.lines)
    /\ EnvUnset(boot.environ0, key)

\* C22: with the configuration file missing, or an API key in neither the
\* file nor the environment, the imports of the service modules fail
\* (FileNotFoundError from ConfigManager(), TypeError from the environment
\* assignment) and the process never gets to serve; a process that serves
\* has its file and both keys, and no ChatService() or VoiceService()
\* built for a request fails for want of a key.
C22_ConfigFailsAtLoad ==
    /\ ~boot.file.exists =>
          /\ boot.phase \in {"start", "failed"}
          /\ boot.phase = "failed" => boot.raised = "FileNotFoundError"
    /\ (boot.file.exists
          /\ \E k \in {OPENAI_API_KEY, GROQ_API_KEY} : MissingKey(k)) =>
          /\ boot.phase \in {"start", "failed"}
          /\ boot.phase = "failed" => boot.raised = "TypeError"
    /\ boot.phase = "failed" =>
          \/ ~boot.file.exists
          \/ \E k \in {OPENAI_API_KEY, GROQ_API_KEY} : MissingKey(k)
    /\ boot.phase \in {"chat_imported", "ready"} =>
          /\ boot.loaded
          /\ \A k \in {OPENAI_API_KEY, GROQ_API_KEY} : boot.environ[k] # None
    /\ boot.request.raised = ""
    /\ boot.request.service # "" => boot.phase = "ready"

\* the file lacks a key the environment lacks too: the import failed
C22_Witness ==
    /\ boot.file.exists
    /\ boot.file.lines # <<>>
    /\ MissingKey(GROQ_API_KEY)
    /\ ~MissingKey(OPENAI_API_KEY)
    /\ boot.phase = "failed"
    /\ boot.raised = "TypeError"

\* C23: on a loaded ConfigManager, for the key K and default d of a call:
\* `K in config` is true exactly when config[K] gives a value and not
\* KeyError; then get(K, d) gives that same value; otherwise get(K, d)
\* gives d, None when no default was passed.
C23_AccessorsAgree ==
    LET a == boot.access IN
    a.key # <<>> =>
        /\ a.contains <=> a.item # KeyError
        /\ a.contains => a.get = a.item /\ a.item.kind = "str"
        /\ ~a.contains => a.get = a.default
        /\ a.contains <=> a.key \in DOMAIN _load(boot.file.lines)

\* a key stored with an empty value, read with a default
C23_Witness ==
    /\ boot.access.key = OPENAI_API_KEY
    /\ boot.access.contains
    /\ boot.access.get = Str(<<>>)
    /\ boot.access.default = Str(<<"default">>)

\* C21: a send_voice_message request that finds no session under its id
\* (the lookup of the view) is answered 404 in that step: no
\* speech_to_text, generate_response, LLM or text_to_speech call was made
\* for it, no temporary file, and no message is created by it.
C21_VoiceMissingSession ==
    [][\A i \in Invs :
          (inv[i].pc = "view_get" /\ inv[i].session_id \notin DOMAIN sessions
              /\ inv'[i] # inv[i]) =>
                /\ inv'[i].pc = "done"
                /\ inv'[i].status = 404
                /\ inv'[i].raised = "DoesNotExist"
                /\ inv'[i].trace = <<Ev("raise", "DoesNotExist")>>
                /\ inv'[i].tmp = "none"
                /\ inv'[i].lc_messages = <<>>
                /\ inv'[i].result.type = "none"
                /\ messages' = messages
                /\ Own(i) = <<>>]_vars

C21_Witness ==
    \E i \in Invs :
        /\ inv[i].kind = "send_voice_message"
        /\ inv[i].status = 404
        /\ ~HasEv(inv[i], "call process_voice_message")
        /\ nextSessionId > 1

\* the statements of generate_response, in program order
GenOrder ==
    <<"resolved", "history_read", "user_written", "llm_called",
      "llm_returned", "agent_written", "return generate_response">>

\* the names of the generate_response events of r, in trace order
GenEvents(r) ==
    LET t == SelectSeq(r.trace, LAMBDA e : e.ev \in Range(GenOrder))
    IN [k \in 1..Len(t) |-> t[k].ev]

\* C24: the events of one generate_response invocation are an initial
\* part of: session resolved, history read, user message written, LLM
\* called (and returned), agent message written, text returned; each at
\* most once, none out of place; the user message is in the table before
\* the LLM is called and the agent message only after it returned.
C24_EventOrder ==
    \A i \in Invs :
        LET r == inv[i]
            g == GenEvents(r)
            here == r.session_id \in DOMAIN sessions
        IN /\ Len(g) <= Len(GenOrder)
           /\ g = SubSeq(GenOrder, 1, Len(g))
           /\ (HasEv(r, "llm_called") /\ here) =>
                 /\ Own(i) # <<>>
                 /\ Own(i)[1].role = USER
           /\ (~HasEv(r, "llm_returned") /\ here) =>
                 \A k \in 1..Len(Own(i)) : Own(i)[k].role # AGENT

C24_Witness ==
    \E i \in Invs :
        /\ GenEvents(inv[i]) = GenOrder
        /\ inv[i].kind = "send_message"
        /\ Len(inv[i].rows) = 2

\* C25: the history of an invocation is read while the invocation has no
\* row in the table, and it never holds a row of the invocation; the
\* sequence sent to the LLM is the system entry, one entry per history
\* row, and the new utterance once, as the final human entry.
C25_HistoryExcludesOwnTurn ==
    [][\A i \in Invs :
          LET r == inv'[i] IN
          /\ (inv[i].pc = "read" /\ r.pc # "read") =>
                /\ Own(i) = <<>>
                /\ Range(r.rows) \subseteq Range(messages)
          /\ \A k \in 1..Len(r.rows) : r.rows[k].by # i
          /\ HasEv(r, "llm_called") =>
                /\ Len(r.lc_messages) = Len(r.rows) + 2
                /\ \A k \in 1..Len(r.rows) :
                      r.lc_messages[k + 1].content = r.rows[k].content
                /\ r.lc_messages[Len(r.rows) + 2] = HumanMessage(r.user_message)]_vars

\* the history holds an earlier message with the text of the new utterance
C25_Witness ==
    \E i \in Invs :
        /\ HasEv(inv[i], "llm_called")
        /\ Len(inv[i].rows) = 2
        /\ inv[i].rows[1].content = inv[i].user_message
        /\ Len(Own(i)) = 2

\* C26: no step of generate_response waits for another invocation: the
\* history read and the two writes are enabled whenever the invocation has
\* reached them, whatever the other invocations on the session are doing.
C26_NothingSerializes ==
    \A i \in Invs :
        /\ inv[i].pc = "read" => ENABLED ReadHistory(i)
        /\ inv[i].pc = "write_user" => ENABLED WriteUser(i)
        /\ inv[i].pc = "llm" => ENABLED CallLLM(i)
        /\ inv[i].pc = "write_agent" => ENABLED WriteAgent(i)

\* A read B's user message without B's agent message, and the two pairs
\* ended up interleaved in the log
C26_Witness ==
    \E a, b \in Invs :
        LET log == Log(inv[a].session_id) IN
        /\ a # b
        /\ inv[a].session_id = inv[b].session_id
        /\ GenReturned(a) /\ GenReturned(b)
        /\ Len(inv[a].rows) = 1
        /\ inv[a].rows[1].by = b /\ inv[a].rows[1].role = USER
        /\ Len(log) = 4
        /\ log[1].by = b /\ log[2].by = a /\ log[3].by = b /\ log[4].by = a

\* C27: an invocation calls the LLM at most once: once when it got as far
\* as saving the user message, never when the session was missing; after
\* a failed call the invocation is over with that failure.
C27_OneLLMCall ==
    \A i \in Invs :
        LET r == inv[i]
            calls == CountEv(r, {"llm_called"})
        IN /\ calls <= 1
           /\ (GenReturned(i) \/ r.raised = "LLMError") => calls = 1
           /\ (r.pc \in {"write_agent", "tts"}) => calls = 1
           /\ (r.pc = "done" /\ HasEv(r, "user_written")) => calls = 1
           /\ r.raised = "DoesNotExist" => calls = 0
           /\ (r.pc = "done" /\ ~HasEv(r, "user_written")) => calls = 0
           /\ r.raised = "LLMError" =>
                 /\ r.pc = "done"
                 /\ LastEv(r) = Ev("raise", "LLMError")
                 /\ r.trace[Len(r.trace) - 1].ev = "llm_called"

C27_Witness ==
    \E i, j \in Invs :
        /\ inv[i].raised = "LLMError"
        /\ inv[j].raised = "DoesNotExist"
        /\ HasEv(inv[j], "call generate_response")
        /\ inv[j].kind = "send_message"

\* C28 as stated: every stored message has role user or agent, a row with
\* another role being refused by the Message model.
C28_RoleClosed ==
    \A k \in 1..Len(messages) : messages[k].role \in ROLE_CHOICES

\* the invocations that entered generate_response on session sid
TurnsOn(sid) ==
    {i \in Invs : inv[i].session_id = sid
                    /\ HasEv(inv[i], "call generate_response")}

\* C29: appends are neither lost nor duplicated: every row of a session
\* was inserted by one of the invocations on it, each invocation has one
\* row per write it made, ids are distinct, so the log holds two rows per
\* invocation that returned and one per invocation that stopped after its
\* user write (2K for K invocations that all succeeded); an invocation's
\* user message comes before its agent message.
C29_NoLostAppend ==
    /\ \A k, l \in 1..Len(messages) :
          k < l => messages[k].id < messages[l].id
    /\ \A sid \in DOMAIN sessions :
          LET on == TurnsOn(sid)
              log == Log(sid)
          IN /\ \A k \in 1..Len(log) : log[k].by \in on
             /\ \A i \in on :
                   /\ Len(Own(i)) = CountEv(inv[i], {"user_written",
                                                     "agent_written"})
                   /\ \A k \in 1..Len(Own(i)) : Own(i)[k].session = sid
                   /\ GenReturned(i) =>
                         \E k, l \in 1..Len(log) :
                             /\ k < l
                             /\ log[k] = Own(i)[1] /\ log[k].role = USER
                             /\ log[l] = Own(i)[2] /\ log[l].role = AGENT
             /\ Len(log) =
                   2 * Cardinality({i \in on : GenReturned(i)})
                   + Cardinality({i \in on : HasEv(inv[i], "user_written")
                                               /\ ~HasEv(inv[i], "agent_written")})

\* two concurrent invocations on one session, both returned, one pair
\* inside the other
C29_Witness ==
    \E i, j \in Invs :
        LET log == Log(inv[i].session_id) IN
        /\ i # j
        /\ TurnsOn(inv[i].session_id) = {i, j}
        /\ GenReturned(i) /\ GenReturned(j)
        /\ Len(log) = 4
        /\ log[1].by = i /\ log[2].by = j /\ log[3].by = j /\ log[4].by = i

\* invocation i ended after saving its user message, without a reply
Orphaned(i) ==
    /\ inv[i].pc = "done"
    /\ HasEv(inv[i], "user_written")
    /\ ~HasEv(inv[i], "agent_written")

\* s has two neighbouring entries for which P holds
Consecutive(s, P(_)) == \E k \in 1..(Len(s) - 1) : P(s[k]) /\ P(s[k + 1])

IsHuman(e) == e.type = "human"
IsUser(m) == m.role = USER

\* C30: the user message of a failed turn stays as it is while its session
\* exists; every history read on the session from then on holds it; the
\* sequence built from such a history has the orphaned utterance as a
\* human entry, directly followed by the new utterance when it is the last
\* of the history, so two human entries are neighbours, and once the new
\* user message is written two user messages are neighbours in the log.
C30_OrphanStays ==
    [][\A i \in Invs :
          (Orphaned(i) /\ inv[i].session_id \in DOMAIN sessions') =>
              LET u == Own(i)[1] IN
              /\ Len(Own(i)) = 1 /\ u.role = USER
              /\ SelectSeq(messages', LAMBDA m : m.by = i) = Own(i)
              /\ \A j \in Invs \ {i} :
                    LET r == inv'[j]
                        L == r.lc_messages
                        N == Len(r.rows)
                    IN /\ (inv[j].pc = "read" /\ r.pc = "write_user"
                             /\ r.session_id = inv[i].session_id) =>
                             u \in Range(r.rows)
                       /\ (u \in Range(r.rows) /\ HasEv(r, "llm_called")) =>
                             /\ \E k \in 1..N :
                                   /\ r.rows[k] = u
                                   /\ L[k + 1] = HumanMessage(u.content)
                             /\ r.rows[N] = u =>
                                   L[N + 2] = HumanMessage(r.user_message)
                             /\ Consecutive(L, IsHuman)
                       /\ (u \in Range(r.rows) /\ HasEv(r, "user_written")) =>
                             Consecutive(SessionRows(messages', r.session_id),
                                         IsUser)]_vars

\* a turn failed at the LLM, the next turn on the session succeeded
C30_Witness ==
    \E i, j \in Invs :
        LET log == Log(inv[i].session_id) IN
        /\ Orphaned(i) /\ inv[i].raised = "LLMError"
        /\ GenReturned(j)
        /\ inv[j].rows = Own(i)
        /\ Len(log) = 3
        /\ log[1].by = i /\ log[2].by = j /\ log[3].by = j
        /\ Len(inv[j].lc_messages) = 3

\* the turns on sid ran one at a time and all returned: of any two, one
\* read its history after the other had written both its messages
OneAtATime(sid) ==
    /\ \A i \in TurnsOn(sid) : GenReturned(i)
    /\ \A i, j \in TurnsOn(sid) :
          i # j => \/ Range(Own(i)) \subseteq Range(inv[j].rows)
                   \/ Range(Own(j)) \subseteq Range(inv[i].rows)

\* the position of turn i among the turns on its session
TurnNumber(i) ==
    1 + Cardinality({j \in TurnsOn(inv[i].session_id) \ {i} :
                        Range(Own(j)) \subseteq Range(inv[i].rows)})

\* C31: a session that started empty and was touched only by
\* generate_response invocations that ran one at a time and all succeeded
\* has, at rest, a log of even length that alternates user, agent, user,
\* agent from its first row on, and the i-th of these invocations handed
\* the LLM a sequence of length 2i.
C31_SequentialAlternates ==
    \A sid \in DOMAIN sessions :
        LET log == Log(sid) IN
        OneAtATime(sid) =>
            /\ Len(log) = 2 * Cardinality(TurnsOn(sid))
            /\ \A k \in 1..Len(log) :
                  log[k].role = IF k % 2 = 1 THEN USER ELSE AGENT
            /\ \A k \in 1..(Len(log) \div 2) :
                  log[2 * k - 1].by = log[2 * k].by
            /\ \A i \in TurnsOn(sid) :
                  /\ Len(inv[i].lc_messages) = 2 * TurnNumber(i)
                  /\ Len(inv[i].rows) = 2 * (TurnNumber(i) - 1)

\* two turns on one session, the second begun after the first returned
C31_Witness ==
    \E i, j \in Invs :
        LET sid == inv[i].session_id IN
        /\ i # j
        /\ sid \in DOMAIN sessions
        /\ TurnsOn(sid) = {i, j}
        /\ OneAtATime(sid)
        /\ TurnNumber(i) = 1 /\ TurnNumber(j) = 2
        /\ Len(Log(sid)) = 4
        /\ Len(inv[i].lc_messages) = 2 /\ Len(inv[j].lc_messages) = 4

\* invocation i has saved its user message and not yet its agent message
BetweenWrites(r) == r.pc \in {"llm", "write_agent"}

\* C32: when the session is deleted while a generate_response on it is
\* between its user write and its agent write, the cascade removes the
\* user message, the agent write fails and ends the invocation as a
\* failure, and no message of the deleted session exists afterwards: no
\* orphan agent message is created.
C32_DeletedMidTurn ==
    [][\A i \in Invs :
          LET r == inv[i]
              after == inv'[i]
              sid == r.session_id
          IN /\ (BetweenWrites(r) /\ sid \in DOMAIN sessions
                   /\ sid \notin DOMAIN sessions') =>
                   /\ Len(Own(i)) = 1
                   /\ SessionRows(messages', sid) = <<>>
                   /\ after = r
             /\ (BetweenWrites(r) /\ sid \notin DOMAIN sessions) =>
                   /\ sid \notin DOMAIN sessions'
                   /\ SessionRows(messages, sid) = <<>>
                   /\ SessionRows(messages', sid) = <<>>
                   /\ (r.pc = "write_agent" /\ after # r) =>
                         /\ after = Raise(r, "IntegrityError")
                         /\ after.status = 500
                         /\ messages' = messages
                   /\ ~HasEv(after, "agent_written")
                   /\ ~HasEv(after, "return generate_response")
                   /\ ~HasEv(after, "call text_to_speech")
                   /\ after.pc = "done" =>
                         after.raised \in {"IntegrityError", "LLMError"}]_vars

\* the LLM answered, the session was deleted before the agent write, the
\* write failed
C32_Witness ==
    \E i \in Invs :
        /\ inv[i].raised = "IntegrityError"
        /\ HasEv(inv[i], "user_written")
        /\ HasEv(inv[i], "llm_returned")
        /\ inv[i].session_id \notin DOMAIN sessions
        /\ SessionRows(messages, inv[i].session_id) = <<>>
        /\ nextMessageId > 1

\* what invocation i read and sent is made of rows of its own session, and
\* its step leaves the rows of every other session as they were
TurnTouchesOwnSession(i) ==
    LET r == inv'[i] IN
    /\ \A k \in 1..Len(r.rows) : r.rows[k].session = r.session_id
    /\ (inv[i].pc = "read" /\ r.pc = "write_user") =>
          Range(r.rows) = Range(SessionRows(messages, r.session_id))
    /\ HasEv(r, "llm_called") =>
          r.lc_messages = build_langchain_messages(r.agent_prompt,
                                                   Pairs(r.rows), r.user_message)
    /\ inv'[i] # inv[i] =>
          \A sid \in DOMAIN sessions \ {r.session_id} :
              SessionRows(messages', sid) = SessionRows(messages, sid)

\* a read of a session, messages inserted into other sessions only, then a
\* second read of the session: both give the same sequence to send
SameSequenceWhateverOthersHold ==
    (probe.session_id # NoId /\ probe.others
        /\ probe'.session_id = probe.session_id /\ ~probe'.others) =>
        \A p \in Prompts, t \in Texts :
            build_langchain_messages(p, probe'.context, t)
                = build_langchain_messages(p, probe.context, t)

\* C33 as stated: the history read and the sequence sent for a session
\* hold only messages of that session, a turn adds, changes or removes no
\* message of another session, and two reads that differ only in what
\* other sessions hold lead to identical sequences.
C33_SessionsIsolated ==
    [][/\ \A i \in Invs : TurnTouchesOwnSession(i)
       /\ SameSequenceWhateverOthersHold]_vars

\* C34: the system entry of the sequence carries the agent prompt read when
\* the session was resolved: the prompt an invocation holds is the one the
\* agent row had at that read, an update of the agent row leaves every
\* invocation as it is, and the LLM call builds the sequence from the prompt
\* held, whatever the agent row holds by then.
C34_PromptReadAtResolve ==
    [][\A i \in Invs :
          LET r == inv[i]
              after == inv'[i]
          IN /\ (r.pc = "resolve" /\ after.pc = "read") =>
                   after.agent_prompt = StoredPrompt(r.session_id)
             /\ agents' # agents => after = r
             /\ (r.pc = "llm" /\ after.pc # "llm") =>
                   /\ after.agent_prompt = r.agent_prompt
                   /\ after.stored_prompt = StoredPrompt(r.session_id)
                   /\ after.lc_messages =
                          <<SystemMessage(r.agent_prompt)>>
                              \o Tail(after.lc_messages)
                   /\ StoredPrompt(r.session_id) # r.agent_prompt =>
                          after.lc_messages[1].content
                              # StoredPrompt(r.session_id)]_vars

\* an LLM call made after the agent prompt had changed under the turn
C34_Witness ==
    \E i \in Invs :
        /\ GenReturned(i)
        /\ inv[i].stored_prompt \in Prompts
        /\ inv[i].stored_prompt # inv[i].agent_prompt
        /\ inv[i].lc_messages[1] = SystemMessage(inv[i].agent_prompt)

EvNames(r) == [k \in 1..Len(r.trace) |-> r.trace[k].ev]

\* C35: process_voice_message transcribes before the session is resolved.
\* Called directly, its first step is the speech-to-text call whether or
\* not the session exists; when the id matches no session at the lookup
\* of generate_response the invocation has by then made exactly one
\* speech-to-text call, whose temporary file is gone, and it fails with
\* DoesNotExist with no message created and no LLM or text-to-speech call.
C35_TranscribesBeforeResolving ==
    [][\A i \in Invs :
          LET r == inv[i]
              after == inv'[i]
          IN r.kind = "process_voice_message" =>
               /\ (r.pc = "stt" /\ after # r) =>
                     /\ EvNames(after)[2] = "call speech_to_text"
                     /\ after.tmp \in {"exists", "removed"}
                     /\ after.raised # "DoesNotExist"
               /\ (r.pc = "resolve" /\ r.session_id \notin DOMAIN sessions
                     /\ after # r) =>
                     /\ after = Raise(r, "DoesNotExist")
                     /\ messages' = messages
               /\ after.raised = "DoesNotExist" =>
                     /\ EvNames(after) =
                            <<"call process_voice_message", "call speech_to_text",
                              "transcribed", "return speech_to_text",
                              "call generate_response", "raise">>
                     /\ after.tmp = "removed"
                     /\ SelectSeq(messages', LAMBDA m : m.by = i) = <<>>
                     /\ after.lc_messages = <<>>
                     /\ after.result.type = "none"]_vars

\* a direct call with an id no session ever had
C35_Witness ==
    \E i \in Invs :
        /\ inv[i].kind = "process_voice_message"
        /\ inv[i].raised = "DoesNotExist"
        /\ inv[i].session_id >= nextSessionId
        /\ CountEv(inv[i], {"call speech_to_text"}) = 1
        /\ inv[i].tmp = "removed"
        /\ messages = <<>>

\* the calls an invocation makes, by the event that marks each
RemoteCalls ==
    {"call speech_to_text", "resolved", "history_read", "user_written",
     "llm_called", "agent_written", "call text_to_speech"}

\* invocation r is over: it returned its result or it failed
Terminated(r) ==
    /\ r.pc = "done"
    /\ (r.raised # "") # (r.result.type # "none")

\* C36: given that every record store, LLM and speech client call returns
\* or fails, every invocation that has started ends, returning or
\* failing; on the way it makes each of its calls at most once.
C36_InvocationsTerminate ==
    /\ [](\A i \in Invs : \A c \in RemoteCalls : CountEv(inv[i], {c}) <= 1)
    /\ \A i \in Invs : (inv[i].pc # "idle") ~> Terminated(inv[i])

\* one invocation returned its audio, the other failed at the LLM
C36_Witness ==
    \E i, j \in Invs :
        /\ Terminated(inv[i]) /\ inv[i].result.type = "audio"
        /\ Terminated(inv[j]) /\ inv[j].raised = "LLMError"
        /\ inv[i].kind = "process_voice_message"
        /\ inv[j].kind = "process_voice_message"

====
